---- MODULE Spec2Model ----
(***************************************************************************)
(* dice_parser: the LALR parser of dice expressions and its semantic       *)
(* actions (DiceTransformer), evaluated at reduction time on one           *)
(* DiceParser object.                                                       *)
(*                                                                         *)
(* The state is the parser object (its transformer's vars dictionary), the *)
(* value stack of the parse in progress and the outcome of the last        *)
(* parse call.  One action per semantic action of the grammar; the order   *)
(* in which actions fire on the stack is the post-order in which the LALR  *)
(* parser reduces.  Nodes returned by var are the objects stored in vars:  *)
(* the stack holds a reference to them, and reads go through vars.          *)
(***************************************************************************)
EXTENDS Integers, Sequences, FiniteSets, TLC

\* ---------------------------------------------------------------- bounds
MaxVal == 2        \* integer values consumed by an action lie in -MaxVal..MaxVal
MaxSteps == 3      \* semantic actions per parse call
MaxStack == 2      \* depth of the value stack
MaxCount == 3      \* dice generated by one roll
MaxFace == 2       \* faces the random source shows: 1..MaxFace of a larger die
MaxDigit == 2      \* digits of a NUMBER token are 0..MaxDigit
MaxLitLen == 2     \* length of a NUMBER token
MaxCalls == 2      \* parse calls made on one DiceParser

\* ------------------------------------------------------- program constants
DefaultCount == 1
DefaultSize == 20

Names == {"x", "y"}
None == "None"
NoRoller == [active |-> FALSE]
NoResult == [kind |-> "none"]
EmptyVars == [n \in {} |-> None]

VARIABLES vars, stack, status, act, steps, calls, result, roller, entry_vars, assigned

allvars == <<vars, stack, status, act, steps, calls, result, roller, entry_vars, assigned>>

\* ------------------------------------------------------------- _ParseResult
ParseResultNode(value, string, flag, sym) ==
    [value |-> value, string |-> string, flag |-> flag, sym |-> sym]

VarRef(name) == [ref |-> name, sym |-> "atom"]

IsRef(n) == "ref" \in DOMAIN n

ValueOf(n) == IF IsRef(n) THEN vars[n.ref].value ELSE n.value
StringOf(n) == IF IsRef(n) THEN vars[n.ref].string ELSE n.string

\* ------------------------------------------------------------------ grammar
Rank(sym) ==
    CASE sym = "atom" -> 1
      [] sym = "dice" -> 2
      [] sym = "product" -> 3
      [] sym = "sum" -> 4
      [] OTHER -> 9

Top == stack[Len(stack)]
Below == stack[Len(stack) - 1]
Pop(n) == SubSeq(stack, 1, Len(stack) - n)

InRange(v) == v \in (-MaxVal)..MaxVal

\* ----------------------------------------------------------- conversions
\* int(value) of a NUMBER token, given as its sequence of decimal digits
RECURSIVE IntOf(_)
IntOf(digits) ==
    IF digits = <<>> THEN 0
    ELSE 10 * IntOf(SubSeq(digits, 1, Len(digits) - 1)) + digits[Len(digits)]

\* str(int) : the canonical decimal text
Str(v) == ToString(v)

\* ', '.join(str(d) for d in rolled_dice)
RECURSIVE JoinDice(_)
JoinDice(dice) ==
    IF dice = <<>> THEN ""
    ELSE IF Len(dice) = 1 THEN Str(dice[1])
    ELSE Str(dice[1]) \o ", " \o JoinDice(Tail(dice))

RollString(rolled_dice) == "[" \o JoinDice(rolled_dice) \o "]"

NumberTokens ==
    UNION {[1..n -> 0..MaxDigit] : n \in 1..MaxLitLen}

\* ---------------------------------------------------------- dice modifiers
NullDiceModifier == [kind |-> "null"]
HighestDiceModifier(k) == [kind |-> "highest", count |-> k]
LowestDiceModifier(k) == [kind |-> "lowest", count |-> k]

RECURSIVE SumSeq(_)
SumSeq(s) == IF s = <<>> THEN 0 ELSE s[1] + SumSeq(Tail(s))

\* sorted(dice): ascending
RECURSIVE Insert(_, _)
Insert(v, s) ==
    IF s = <<>> THEN <<v>>
    ELSE IF v <= s[1] THEN <<v>> \o s
    ELSE <<s[1]>> \o Insert(v, Tail(s))

RECURSIVE Sorted(_)
Sorted(dice) == IF dice = <<>> THEN <<>> ELSE Insert(dice[1], Sorted(Tail(dice)))

\* DiceModifier._safe_count : the modifier's count clamped to [0, len(dice)]
SafeCount(modifier, dice) ==
    IF modifier.count < 0 THEN 0
    ELSE IF modifier.count > Len(dice) THEN Len(dice)
    ELSE modifier.count

\* Python slices s[a:] and s[:a] for 0 <= a <= len(s)
SliceFrom(s, a) == SubSeq(s, a + 1, Len(s))
SliceTo(s, a) == SubSeq(s, 1, a)

NullGetActualDice(dice) == <<dice, <<>>>>

\* (mutant) the highest modifier keeping the low end of the sorted dice
HighestGetActualDice_LowEnd(modifier, dice) ==
    LET sorted_dice == Sorted(dice)
        count == SafeCount(modifier, dice)
    IN <<SliceTo(sorted_dice, count), SliceFrom(sorted_dice, count)>>

HighestGetActualDice(modifier, dice) ==
    LET sorted_dice == Sorted(dice)
        count == SafeCount(modifier, dice)
        n == Len(sorted_dice)
    IN <<SliceFrom(sorted_dice, n - count), SliceTo(sorted_dice, n - count)>>

LowestGetActualDice(modifier, dice) ==
    LET sorted_dice == Sorted(dice)
        count == SafeCount(modifier, dice)
    IN <<SliceTo(sorted_dice, count), SliceFrom(sorted_dice, count)>>

GetActualDice(modifier, dice) ==
    CASE modifier.kind = "highest" -> HighestGetActualDice(modifier, dice)
      [] modifier.kind = "lowest" -> LowestGetActualDice(modifier, dice)
      [] OTHER -> NullGetActualDice(dice)

\* -------------------------------------------------------------- DiceRoller
\* the outcomes the random source can generate for count dice of size faces
DiceOutcomes(count, size) ==
    IF count <= 0 THEN {<<>>}
    ELSE IF size >= 1
         THEN [1..count -> 1..(IF size <= MaxFace THEN size ELSE MaxFace)]
    ELSE {[i \in 1..count |-> 0]}

\* DiceRoller(count, size, modifier).roll() with the generated dice
RollerRoll(count, size, modifier, dice) ==
    LET actual == GetActualDice(modifier, dice)
    IN [active |-> TRUE, count |-> count, size |-> size, modifier |-> modifier, dice |-> dice,
        kept |-> actual[1], dropped |-> actual[2],
        rolled_result |-> SumSeq(actual[1]), rolled_dice |-> dice]

\* ------------------------------------------------------------ parser steps
Running == status = "running" /\ steps < MaxSteps

\* an operand can follow: nothing follows a dice modifier or a finished start
CanPush ==
    /\ Len(stack) < MaxStack
    /\ stack # <<>> => Top.sym \notin {"dice_modifier", "start"}

Plain(n) == Rank(n.sym) <= 4

\* a semantic action returned: the parse goes on with the new value stack
Reduce(a, newstack) ==
    /\ stack' = newstack
    /\ act' = a
    /\ steps' = steps + 1
    /\ status' = "running"
    /\ result' = result
    /\ UNCHANGED <<calls, entry_vars, assigned>>

\* a semantic action raised: the exception leaves parse(), no ParseResult
Raise(a, err) ==
    /\ stack' = <<>>
    /\ act' = a
    /\ steps' = steps + 1
    /\ status' = "idle"
    /\ result' = [kind |-> "error", error |-> err]
    /\ roller' = NoRoller
    /\ UNCHANGED <<calls, entry_vars, assigned>>

\* ------------------------------------------------------- semantic actions
number(value) ==
    /\ Running /\ CanPush
    /\ InRange(IntOf(value))
    /\ Reduce("number",
              Append(stack, ParseResultNode(IntOf(value), Str(IntOf(value)), None, "atom")))
    /\ roller' = NoRoller
    /\ UNCHANGED vars

\* _ParseResult.operator: cls(operator_callable(values), template.format(strings))
Apply(op, a, b) ==
    CASE op = "add" -> a + b
      [] op = "sub" -> a - b
      [] op = "mul" -> a * b

\* (mutant) division that rounds toward zero
FloorDiv_Truncate(a, b) ==
    LET abs_a == IF a < 0 THEN -a ELSE a
        abs_b == IF b < 0 THEN -b ELSE b
        q == abs_a \div abs_b
    IN IF (a < 0) = (b < 0) THEN q ELSE -q

\* operator.floordiv on integers, b # 0: the quotient rounded toward minus infinity
FloorDiv(a, b) ==
    LET abs_a == IF a < 0 THEN -a ELSE a
        abs_b == IF b < 0 THEN -b ELSE b
        q == abs_a \div abs_b
        exact == q * abs_b = abs_a
    IN IF (a < 0) = (b < 0) THEN q
       ELSE IF exact THEN -q ELSE -q - 1

Template(op, a, b) ==
    CASE op = "add" -> a \o " + " \o b
      [] op = "sub" -> a \o " - " \o b
      [] op = "mul" -> a \o " * " \o b
      [] op = "div" -> a \o " / " \o b

BinaryOperands(leftRank, rightRank) ==
    /\ Running
    /\ Len(stack) >= 2
    /\ Rank(Below.sym) <= leftRank
    /\ Rank(Top.sym) <= rightRank
    /\ InRange(ValueOf(Below)) /\ InRange(ValueOf(Top))

Operator(op, sym) ==
    /\ InRange(Apply(op, ValueOf(Below), ValueOf(Top)))
    /\ Reduce(op, Append(Pop(2),
                  ParseResultNode(Apply(op, ValueOf(Below), ValueOf(Top)),
                                  Template(op, StringOf(Below), StringOf(Top)),
                                  None, sym)))
    /\ roller' = NoRoller
    /\ UNCHANGED vars

add ==
    /\ BinaryOperands(4, 3)
    /\ Operator("add", "sum")

sub ==
    /\ BinaryOperands(4, 3)
    /\ Operator("sub", "sum")

mul ==
    /\ BinaryOperands(3, 2)
    /\ Operator("mul", "product")

div ==
    /\ BinaryOperands(3, 2)
    /\ IF ValueOf(Top) = 0
       THEN Raise("div", [type |-> "ZeroDivisionError"])
       ELSE /\ Reduce("div", Append(Pop(2),
                      ParseResultNode(FloorDiv(ValueOf(Below), ValueOf(Top)),
                                      Template("div", StringOf(Below), StringOf(Top)),
                                      None, "product")))
            /\ roller' = NoRoller
    /\ UNCHANGED vars

neg ==
    /\ Running
    /\ stack # <<>>
    /\ Top.sym = "atom"
    /\ InRange(ValueOf(Top))
    /\ Reduce("neg", Append(Pop(1),
                  ParseResultNode(-ValueOf(Top), "-" \o StringOf(Top), None, "atom")))
    /\ roller' = NoRoller
    /\ UNCHANGED vars

brackets ==
    /\ Running
    /\ stack # <<>>
    /\ Plain(Top)
    /\ InRange(ValueOf(Top))
    /\ Reduce("brackets", Append(Pop(1),
                  ParseResultNode(ValueOf(Top), "(" \o StringOf(Top) \o ")", None, "atom")))
    /\ roller' = NoRoller
    /\ UNCHANGED vars

\* _add_flag: a new node with the value and string of result, and the flag
AddFlag(res, flag) == ParseResultNode(ValueOf(res), StringOf(res), flag, flag)

dice_count ==
    /\ Running
    /\ stack # <<>>
    /\ Top.sym = "atom"
    /\ InRange(ValueOf(Top)) /\ ValueOf(Top) <= MaxCount
    /\ Reduce("dice_count", Append(Pop(1), AddFlag(Top, "dice_count")))
    /\ roller' = NoRoller
    /\ UNCHANGED vars

\* (mutant) dice_size without its clamp
ClampSize_None(value) == value

\* the size that dice_size leaves in result.value
ClampSize(value) == IF value < 1 THEN 0 ELSE value

\* result.value = 0 is an assignment to the node dice_size was given: the node
\* var returned is the one vars holds
dice_size ==
    /\ Running
    /\ stack # <<>>
    /\ Top.sym = "atom"
    /\ Len(stack) >= 2 => Below.sym \notin {"dice_size", "dice_modifier"}
    /\ InRange(ValueOf(Top))
    /\ vars' = IF IsRef(Top)
               THEN [vars EXCEPT ![Top.ref].value = ClampSize(@)]
               ELSE vars
    /\ Reduce("dice_size", Append(Pop(1),
                  ParseResultNode(ClampSize(ValueOf(Top)), StringOf(Top),
                                  "dice_size", "dice_size")))
    /\ roller' = NoRoller

ModifierOperand ==
    /\ Running
    /\ stack # <<>>
    /\ Top.sym = "atom"
    /\ InRange(ValueOf(Top))

DiceModifierAction(a, modifier) ==
    /\ Reduce(a, Append(Pop(1),
                  ParseResultNode(modifier, None, "dice_modifier", "dice_modifier")))
    /\ roller' = NoRoller
    /\ UNCHANGED vars

dice_highest ==
    /\ ModifierOperand
    /\ DiceModifierAction("dice_highest", HighestDiceModifier(ValueOf(Top)))

dice_lowest ==
    /\ ModifierOperand
    /\ DiceModifierAction("dice_lowest", LowestDiceModifier(ValueOf(Top)))

\* the children of roll: the nk topmost nodes, flagged, in the order
\* dice_count? dice_size? dice_modifier?
Role(sym) ==
    CASE sym = "dice_count" -> 1
      [] sym = "dice_size" -> 2
      [] sym = "dice_modifier" -> 3
      [] OTHER -> 0

RollChildren(nk) ==
    /\ nk <= Len(stack)
    /\ \A i \in 1..nk : Role(stack[Len(stack) - nk + i].sym) > 0
    /\ \A i, j \in 1..nk :
          i < j => Role(stack[Len(stack) - nk + i].sym) < Role(stack[Len(stack) - nk + j].sym)
    /\ nk = 0 => CanPush

\* the for loop of roll: the value of the (last) child with that flag
RollArg(args, flag, default) ==
    IF \E i \in 1..Len(args) : args[i].flag = flag
    THEN args[CHOOSE i \in 1..Len(args) :
                 /\ args[i].flag = flag
                 /\ \A j \in 1..Len(args) : args[j].flag = flag => j <= i].value
    ELSE default

\* (mutant) roll reporting the kept dice only
RollNode_KeptOnly(rolled) ==
    ParseResultNode(rolled.rolled_result, RollString(rolled.kept), None, "dice")

\* the node roll returns for rolled_result, rolled_dice = roller.roll()
RollNode(rolled) ==
    ParseResultNode(rolled.rolled_result, RollString(rolled.rolled_dice), None, "dice")

\* roller.roll() generates the dice; a negative count is either refused by the
\* roller or rolls no dice
roll(nk) ==
    /\ Running
    /\ RollChildren(nk)
    /\ LET args == SubSeq(stack, Len(stack) - nk + 1, Len(stack))
           count == RollArg(args, "dice_count", DefaultCount)
           size == RollArg(args, "dice_size", DefaultSize)
           modifier == RollArg(args, "dice_modifier", NullDiceModifier)
       IN /\ count <= MaxCount
          /\ \/ \E dice \in DiceOutcomes(count, size) :
                  LET rolled == RollerRoll(count, size, modifier, dice)
                  IN /\ roller' = rolled
                     /\ Reduce("roll", Append(Pop(nk), RollNode(rolled)))
             \/ /\ count < 0
                /\ Raise("roll", [type |-> "ValueError"])
    /\ UNCHANGED vars

\* (mutant) the stored node keeping the text of the assigned expression
StoredNode_ResultText(name, res) ==
    [value |-> ValueOf(res), string |-> StringOf(res), flag |-> None]

\* self.vars[name] = _ParseResult(result.value, name)
StoredNode(name, res) == [value |-> ValueOf(res), string |-> name, flag |-> None]

assign_var(name) ==
    /\ Running
    /\ Len(stack) = 1
    /\ Plain(Top)
    /\ InRange(ValueOf(Top))
    /\ vars' = [n \in DOMAIN vars \cup {name} |->
                  IF n = name THEN StoredNode(name, Top) ELSE vars[n]]
    /\ assigned' = [n \in DOMAIN assigned \cup {name} |->
                      IF n = name THEN ValueOf(Top) ELSE assigned[n]]
    /\ stack' = <<ParseResultNode(ValueOf(Top), name \o " = " \o StringOf(Top),
                                  None, "start")>>
    /\ act' = "assign_var"
    /\ steps' = steps + 1
    /\ roller' = NoRoller
    /\ UNCHANGED <<status, calls, result, entry_vars>>

\* (mutant) var giving an unbound name the value 0
var_DefaultZero(name) ==
    /\ Running /\ CanPush
    /\ Reduce("var", Append(stack, IF name \in DOMAIN vars
                                   THEN VarRef(name)
                                   ELSE ParseResultNode(0, name, None, "atom")))
    /\ roller' = NoRoller
    /\ UNCHANGED vars

\* self.vars[name]: the stored node itself, or KeyError
var(name) ==
    /\ Running /\ CanPush
    /\ IF name \in DOMAIN vars
       THEN /\ Reduce("var", Append(stack, VarRef(name)))
            /\ roller' = NoRoller
       ELSE Raise("var", [type |-> "KeyError", key |-> name])
    /\ UNCHANGED vars

\* ---------------------------------------------------------------- DiceParser
\* DiceParser(): one Lark parser with one DiceTransformer, whose vars is empty
Construct ==
    /\ status = "idle"
    /\ vars' = EmptyVars
    /\ assigned' = EmptyVars
    /\ entry_vars' = EmptyVars
    /\ stack' = <<>>
    /\ act' = "__init__"
    /\ steps' = 0
    /\ calls' = 0
    /\ result' = NoResult
    /\ roller' = NoRoller
    /\ UNCHANGED status

\* (mutant) parse() making a new DiceTransformer for every call
ParseBegin_FreshVars ==
    /\ status = "idle"
    /\ calls < MaxCalls
    /\ calls' = calls + 1
    /\ status' = "running"
    /\ stack' = <<>>
    /\ steps' = 0
    /\ act' = "parse"
    /\ result' = NoResult
    /\ vars' = EmptyVars
    /\ entry_vars' = EmptyVars
    /\ roller' = NoRoller
    /\ UNCHANGED assigned

\* parse(string) is entered: the parser starts on an empty value stack
ParseBegin ==
    /\ status = "idle"
    /\ calls < MaxCalls
    /\ calls' = calls + 1
    /\ status' = "running"
    /\ stack' = <<>>
    /\ steps' = 0
    /\ act' = "parse"
    /\ result' = NoResult
    /\ entry_vars' = vars
    /\ roller' = NoRoller
    /\ UNCHANGED <<vars, assigned>>

\* the input ends after a start symbol: result.to_public_result()
ParseReturn ==
    /\ status = "running"
    /\ Len(stack) = 1
    /\ Plain(Top) \/ Top.sym = "start"
    /\ status' = "idle"
    /\ result' = [kind |-> "ok", value |-> ValueOf(Top), string |-> StringOf(Top)]
    /\ stack' = <<>>
    /\ act' = "return"
    /\ roller' = NoRoller
    /\ UNCHANGED <<vars, steps, calls, entry_vars, assigned>>

\* the next token is none the grammar allows here: Lark raises out of parse().
\* assign_var is reduced on the end of input alone, so no error follows it
SyntaxError ==
    /\ status = "running"
    /\ stack # <<>> => Top.sym # "start"
    /\ status' = "idle"
    /\ result' = [kind |-> "error", error |-> [type |-> "UnexpectedInput"]]
    /\ stack' = <<>>
    /\ act' = "syntax_error"
    /\ roller' = NoRoller
    /\ UNCHANGED <<vars, steps, calls, entry_vars, assigned>>

Init ==
    /\ vars = EmptyVars
    /\ assigned = EmptyVars
    /\ entry_vars = EmptyVars
    /\ stack = <<>>
    /\ status = "idle"
    /\ act = "__init__"
    /\ steps = 0
    /\ calls = 0
    /\ result = NoResult
    /\ roller = NoRoller

Next ==
    \/ Construct
    \/ ParseBegin
    \/ ParseReturn
    \/ SyntaxError
    \/ \E value \in NumberTokens : number(value)
    \/ add
    \/ sub
    \/ mul
    \/ div
    \/ neg
    \/ brackets
    \/ dice_count
    \/ dice_size
    \/ dice_highest
    \/ dice_lowest
    \/ \E nk \in 0..3 : roll(nk)
    \/ \E name \in Names : assign_var(name)
    \/ \E name \in Names : var(name)

Spec == Init /\ [][Next]_allvars

\* ------------------------------------------------- the dice term on its own
\* A parse that has reached a dice term, in an environment an earlier parse of
\* "x = v" left: the count (if any) is reduced; after "d" the size atom (if
\* any) is on the stack or is reduced by dice_size already, and then the atom
\* of the modifier (if any) is on the stack.
RollEnvs ==
    {EmptyVars} \cup
    {[n \in {"x"} |-> [value |-> v, string |-> n, flag |-> None]] :
        v \in (-MaxVal)..MaxVal}

CountParts ==
    {<<>>} \cup
    {<<ParseResultNode(c, Str(c), "dice_count", "dice_count")>> : c \in (-1)..MaxCount}

AtomParts(env) ==
    {<<ParseResultNode(v, Str(v), None, "atom")>> : v \in (-MaxVal)..MaxVal} \cup
    {<<VarRef(n)>> : n \in DOMAIN env}

\* dice_size has reduced a literal size
SizeParts ==
    {<<>>} \cup
    {<<ParseResultNode(ClampSize(v), Str(v), "dice_size", "dice_size")>> :
        v \in (-MaxVal)..MaxVal}

InitRoll ==
    /\ vars \in RollEnvs
    /\ assigned = [n \in DOMAIN vars |-> vars[n].value]
    /\ entry_vars = vars
    /\ \E c \in CountParts :
          \/ stack = c
          \/ \E a \in AtomParts(vars) : stack = c \o a
          \/ \E z \in SizeParts : \E a \in AtomParts(vars) : stack = c \o z \o a
    /\ status = "running"
    /\ act = "parse"
    /\ steps = 0
    /\ calls = IF vars = EmptyVars THEN 1 ELSE 2
    /\ result = NoResult
    /\ roller = NoRoller

\* the operands of a dice term are atoms: a number is read only where the
\* term expects its size or the count of its modifier, and the term is the
\* only one (a dice term nested in another one is left to Spec)
NextRoll ==
    \/ /\ stack # <<>> => Role(Top.sym) > 0
       /\ \E value \in NumberTokens : number(value)
    \/ neg
    \/ brackets
    \/ dice_size
    \/ dice_highest
    \/ dice_lowest
    \/ \E nk \in 0..3 :
          /\ nk = 0 => stack = <<>>
          /\ roll(nk)
    \/ ParseReturn

SpecRoll == InitRoll /\ [][NextRoll]_allvars

\* =================================================================== claims
SemanticActions ==
    {"number", "add", "sub", "mul", "div", "neg", "brackets", "var",
     "dice_count", "dice_size", "dice_highest", "dice_lowest", "roll", "assign_var"}

NewTop == stack'[Len(stack')]

\* C1: a reference to x reads the value the last successful "x = e" gave it:
\* the node var returns holds the value last assigned to that name.
C1_VarReadsAssigned ==
    (act = "var" /\ status = "running") => ValueOf(Top) = assigned[Top.ref]

\* C2: every semantic action other than assign_var leaves vars, the names and
\* the value held by every stored node, unchanged.
C2_OnlyAssignMutates ==
    [][(act' \in SemanticActions \ {"assign_var"}) => vars' = vars]_allvars

\* C3 (as stated): every parse call starts with an empty environment.
C3_FreshEnvPerParse == act = "parse" => vars = EmptyVars

\* C3 (amended): the environment is made once, by DiceParser(), and a parse
\* call starts with the environment the earlier calls on that parser left;
\* no step other than DiceParser() removes a binding.
C3_EnvPerParser ==
    /\ [](act = "__init__" => vars = EmptyVars)
    /\ [][/\ act' = "parse" => vars' = vars
          /\ act' # "__init__" => DOMAIN vars \subseteq DOMAIN vars']_allvars

C3_Witness == act = "parse" /\ calls = 2 /\ "x" \in DOMAIN vars

\* C4: a reference to a name with no binding fails the parse with an error and
\* no ParseResult, and creates no binding; only a bound name yields a node,
\* and that node is the stored one (never a default).
C4_UnboundFails ==
    act = "var" =>
        IF status = "idle"
        THEN /\ result.kind = "error"
             /\ result.error.type = "KeyError"
             /\ result.error.key \notin DOMAIN entry_vars
             /\ stack = <<>>
             /\ DOMAIN vars = DOMAIN entry_vars
        ELSE /\ IsRef(Top)
             /\ Top.ref \in DOMAIN entry_vars
             /\ result.kind = "none"

C4_Witness ==
    /\ act = "var" /\ status = "idle"
    /\ result.kind = "error" /\ result.error.key = "y"
    /\ DOMAIN vars = {"x"}

\* the k largest / smallest of a sequence of dice, one at a time
MaxOf(s) == CHOOSE v \in {s[i] : i \in 1..Len(s)} : \A i \in 1..Len(s) : s[i] <= v
MinOf(s) == CHOOSE v \in {s[i] : i \in 1..Len(s)} : \A i \in 1..Len(s) : s[i] >= v
RemoveOne(s, v) ==
    LET i == CHOOSE j \in 1..Len(s) : s[j] = v
    IN SubSeq(s, 1, i - 1) \o SubSeq(s, i + 1, Len(s))

RECURSIVE SumLargest(_, _)
SumLargest(s, k) ==
    IF k = 0 THEN 0 ELSE MaxOf(s) + SumLargest(RemoveOne(s, MaxOf(s)), k - 1)

RECURSIVE SumSmallest(_, _)
SumSmallest(s, k) ==
    IF k = 0 THEN 0 ELSE MinOf(s) + SumSmallest(RemoveOne(s, MinOf(s)), k - 1)

Occurrences(s, v) == Cardinality({i \in 1..Len(s) : s[i] = v})
SamePips(s, t) == \A v \in 0..DefaultSize : Occurrences(s, v) = Occurrences(t, v)
KeepCount(k, n) == IF k < 0 THEN 0 ELSE IF k > n THEN n ELSE k

\* C5: with modifier H k the value of a roll of N dice is the sum of the
\* min(max(k,0),N) largest outcomes, with L k of as many smallest; kept and
\* dropped together are a permutation of the N outcomes.
C5_KeepHighestLowest ==
    (roller.active /\ roller.modifier.kind \in {"highest", "lowest"}) =>
        LET n == Len(roller.dice)
            k == KeepCount(roller.modifier.count, n)
        IN /\ roller.modifier.kind = "highest" => Top.value = SumLargest(roller.dice, k)
           /\ roller.modifier.kind = "lowest" => Top.value = SumSmallest(roller.dice, k)
           /\ Len(roller.kept) = k
           /\ SamePips(roller.kept \o roller.dropped, roller.dice)

C5_Witness ==
    /\ roller.active /\ roller.modifier = HighestDiceModifier(1)
    /\ roller.dice = <<1, 2>> /\ Top.value = 2 /\ Top.string = "[1, 2]"

\* the text of a list of outcomes, built from its last entry
RECURSIVE ListText(_, _)
ListText(s, rest) ==
    IF s = <<>> THEN "[" \o rest
    ELSE ListText(SubSeq(s, 1, Len(s) - 1),
                  ToString(s[Len(s)]) \o (IF rest = "]" THEN "" ELSE ", ") \o rest)

\* C6: a roll of N >= 0 dice of size M >= 1 reports exactly N outcomes, all the
\* generated ones in generation order, each in 1..M, and its value is the sum
\* of the kept ones, which are among the outcomes.
C6_RollBounds ==
    (roller.active /\ roller.count >= 0 /\ roller.size >= 1) =>
        /\ Len(roller.dice) = roller.count
        /\ \A i \in 1..Len(roller.dice) : roller.dice[i] \in 1..roller.size
        /\ Top.string = ListText(roller.dice, "]")
        /\ Top.value = SumSeq(roller.kept)
        /\ \A v \in 0..DefaultSize :
              Occurrences(roller.kept, v) <= Occurrences(roller.dice, v)

C6_Witness ==
    /\ roller.active /\ roller.count = 3 /\ roller.size = 2
    /\ roller.modifier = LowestDiceModifier(2)
    /\ Top.string = "[2, 1, 2]" /\ Top.value = 3

\* C7 (as stated): the text of a reference is the text of the bound value,
\* not the identifier.
C7_TextIsValueText ==
    (act = "var" /\ status = "running") =>
        /\ StringOf(Top) # Top.ref
        /\ StringOf(Top) = Str(ValueOf(Top))

\* C7 (amended): the text of a reference is the identifier itself: every
\* stored node holds its own name as text, and var returns that node.
C7_TextIsName ==
    /\ \A n \in DOMAIN vars : vars[n].string = n
    /\ (act = "var" /\ status = "running") => StringOf(Top) = Top.ref

C7_Witness ==
    /\ act = "add" /\ "x" \in DOMAIN vars
    /\ Top.string = "x + 1" /\ Top.value = vars["x"].value + 1

\* C8: dice_size turns a size below 1 into 0 and passes a size of 1 or more
\* on unchanged; the roller gets that size; a roll of size 0 has value 0 and
\* count outcomes, all 0.
C8_SizeClamp ==
    /\ [](roller.active =>
            /\ roller.size >= 0
            /\ (roller.size = 0 /\ roller.count >= 0) =>
                  /\ Top.value = 0
                  /\ Len(roller.dice) = roller.count
                  /\ \A i \in 1..Len(roller.dice) : roller.dice[i] = 0
                  /\ Top.string = ListText(roller.dice, "]"))
    /\ [][/\ act' = "dice_size" =>
               NewTop.value = (IF ValueOf(Top) < 1 THEN 0 ELSE ValueOf(Top))
          /\ (act' = "roll" /\ status' = "running" /\ stack # <<>>) =>
               \A i \in Len(stack')..Len(stack) :
                  stack[i].sym = "dice_size" => roller'.size = stack[i].value
         ]_allvars

C8_Witness ==
    /\ roller.active /\ roller.count = 3 /\ roller.size = 0
    /\ Top.string = "[0, 0, 0]" /\ Top.value = 0

\* C9: div is floor division: for children with values a and b, b # 0, the
\* value q satisfies q*b <= a < (q+1)*b when b > 0 and q*b >= a > (q+1)*b when
\* b < 0, and the text is "{a} / {b}"; b = 0 raises.
C9_FloorDivision ==
    [][act' = "div" =>
          LET a == ValueOf(Below)
              b == ValueOf(Top)
          IN IF b = 0 THEN status' = "idle" /\ result'.kind = "error"
             ELSE /\ status' = "running"
                  /\ b > 0 => NewTop.value * b <= a /\ a < (NewTop.value + 1) * b
                  /\ b < 0 => NewTop.value * b >= a /\ a > (NewTop.value + 1) * b
                  /\ NewTop.string = StringOf(Below) \o " / " \o StringOf(Top)
      ]_allvars

C9_Witness ==
    /\ act = "div" /\ status = "running"
    /\ Top.string = "x / 2" /\ Top.value = -1

\* C10: a parse call that fails leaves vars as it was when the call began.
C10_FailureLeavesEnv ==
    (status = "idle" /\ result.kind = "error") => vars = entry_vars

====
